---- MODULE Spec2Model ----
(***************************************************************************)
(* A model of the idt8a3xxxx crate: the Contents width descriptor, the     *)
(* Payload codec (from_slice, into_slice, value) of src/src/lib.rs, the     *)
(* table generator output_modules of src/build.rs, and the two table       *)
(* validators (address_orthogonality, register_orthogonality) of the       *)
(* crate's tests.                                                          *)
(*                                                                         *)
(* A u8 is a natural in 0..255.  A u64 is the sequence of its eight bytes, *)
(* least significant first (TLC's integers are 32 bits wide); the shifts,  *)
(* masks, ors and the division of the code are computed on that form.      *)
(* A Rust index i is the TLA+ index i + 1.  Option<T> is a sequence of     *)
(* length at most one: None is << >> and Some(x) is << x >>.               *)
(***************************************************************************)
EXTENDS Integers, Sequences, FiniteSets, TLC

VARIABLES
    overflow_checks, \* build profile: TRUE when arithmetic overflow panics
    slice,           \* the caller's byte buffer
    payload,         \* Option<Payload> returned by the last constructor
    rval,            \* Option<u64> returned by Payload::value
    calls,           \* the calls made so far, in order
    panic,           \* the panic that aborted the program, NoPanic if none
    registers_ron,   \* the register description read by build.rs
    table,           \* Option of the table returned by modules()
    address_test,    \* outcome of tests::address_orthogonality
    register_test    \* outcome of tests::register_orthogonality

vars == << overflow_checks, slice, payload, rval, calls, panic,
           registers_ron, table, address_test, register_test >>

codec_vars == << slice, payload, rval, calls >>
table_vars == << registers_ron, table, address_test, register_test >>

(***************************************************************************)
(* Bounds of the model.                                                    *)
(***************************************************************************)
MaxLen == 12           \* longest caller buffer
MaxNonZero == 2        \* non-zero bytes in a decoded buffer
MaxValNonZero == 1     \* non-zero bytes in an encoded sparse value

ByteVals == {2, 255}

None == << >>
Some(x) == << x >>
NoPanic == "none"

(***************************************************************************)
(* u8 and u64 arithmetic.                                                  *)
(***************************************************************************)
RECURSIVE BitOr(_, _)
BitOr(a, b) ==
    IF a = 0 THEN b
    ELSE IF b = 0 THEN a
    ELSE (IF (a % 2) = 1 \/ (b % 2) = 1 THEN 1 ELSE 0)
         + 2 * BitOr(a \div 2, b \div 2)

RECURSIVE Pow2(_)
Pow2(n) == IF n = 0 THEN 1 ELSE 2 * Pow2(n - 1)

Zero64 == [i \in 1..8 |-> 0]

\* b as u64
U64OfByte(b) == [i \in 1..8 |-> IF i = 1 THEN b ELSE 0]

Digit(v, i) == IF i >= 1 /\ i <= 8 THEN v[i] ELSE 0

\* v << s for 0 <= s < 64
U64Shl(v, s) ==
    LET k == s \div 8
        r == s % 8
    IN [i \in 1..8 |->
           ((Digit(v, i - k) * Pow2(r)) % 256)
           + ((Digit(v, i - k - 1) * Pow2(r)) \div 256)]

\* v >> s for 0 <= s < 64
U64Shr(v, s) ==
    LET k == s \div 8
        r == s % 8
    IN [i \in 1..8 |->
           (Digit(v, i + k) \div Pow2(r))
           + ((Digit(v, i + k + 1) % Pow2(r)) * Pow2(8 - r))]

\* a | b
U64Or(a, b) == [i \in 1..8 |-> BitOr(a[i], b[i])]

\* (v & 0xff) as u8
LowByte(v) == v[1]

\* u64::checked_shl: None when the shift is at least the width
checked_shl(v, s) == IF s >= 64 THEN None ELSE Some(U64Shl(v, s))

\* v as a natural, for v below 2^24
RECURSIVE NatOf(_, _)
NatOf(v, i) == IF i > 3 THEN 0 ELSE v[i] + (256 * NatOf(v, i + 1))

IsZero64(v) == \A i \in 1..8 : v[i] = 0

\* m / n on u64, n a non-zero natural below 2^16: long division from the
\* most significant byte down
RECURSIVE DivLoop(_, _, _, _, _)
DivLoop(m, n, i, rem, q) ==
    IF i = 0 THEN q
    ELSE LET cur == rem * 256 + m[i]
         IN DivLoop(m, n, i - 1, (cur % n), [q EXCEPT ![i] = (cur \div n)])

U64Div(m, n) == DivLoop(m, NatOf(n, 1), 8, 0, Zero64)

(***************************************************************************)
(* Contents                                                                *)
(***************************************************************************)
Contents == {"Byte", "Word", "Word24", "Word32", "Word40", "Word48",
             "Frequency", "TimeOfDay"}

size(contents) ==
    CASE contents = "Byte" -> 1
      [] contents = "Word" -> 2
      [] contents = "Word24" -> 3
      [] contents = "Word32" -> 4
      [] contents = "Word40" -> 5
      [] contents = "Word48" -> 6
      [] contents = "Frequency" -> 8
      [] contents = "TimeOfDay" -> 11

(***************************************************************************)
(* Payload                                                                 *)
(***************************************************************************)
Payload(contents, data) == [contents |-> contents, data |-> data]

\* from_slice without the truncation to kind.size() bytes
from_slice_whole(contents, s) ==
    IF Len(s) < size(contents) THEN None ELSE Some(Payload(contents, s))

from_slice(contents, s) ==
    LET len == size(contents)
    IN IF Len(s) < len
       THEN None
       ELSE Some(Payload(contents, SubSeq(s, 1, len)))

\* data[i] = ((v >> ((i - lo) * 8)) & 0xff) as u8, for i in i..hi.  The
\* right-hand side is evaluated before the indexing.  A shift by 64 or more
\* panics under overflow checks and is taken modulo 64 without them.
RECURSIVE write_loop(_, _, _, _, _, _)
write_loop(v, data, i, hi, lo, oc) ==
    IF i >= hi THEN [panic |-> NoPanic, data |-> data]
    ELSE LET sh == (i - lo) * 8
         IN IF sh >= 64 /\ oc
            THEN [panic |-> "shift overflow", data |-> data]
            ELSE IF i >= Len(data)
            THEN [panic |-> "index out of bounds", data |-> data]
            ELSE write_loop(v,
                     [data EXCEPT ![i + 1] = LowByte(U64Shr(v, sh % 64))],
                     i + 1, hi, lo, oc)

\* the denominator written by into_slice for Frequency (let n = 1)
FrequencyN == U64OfByte(1)

\* into_slice for Frequency taking the generic path over all 8 bytes
into_slice_frequency_plain(value, data, oc) ==
    write_loop(value, data, 0, 8, 0, oc)

into_slice_frequency(value, data, oc) ==
    LET m == write_loop(value, data, 0, 6, 0, oc)
    IN IF m.panic # NoPanic THEN m
       ELSE write_loop(FrequencyN, m.data, 6, 8, 6, oc)

\* the generic path stopping one byte early
into_slice_default_short(len, value, data, oc) ==
    write_loop(value, data, 0, len - 1, 0, oc)

into_slice_default(len, value, data, oc) ==
    write_loop(value, data, 0, len, 0, oc)

\* Returns the panic (if any), the buffer as written and the Option<Payload>.
into_slice(contents, value, data, oc) ==
    LET len == size(contents)
        w == IF contents = "Frequency"
             THEN into_slice_frequency(value, data, oc)
             ELSE into_slice_default(len, value, data, oc)
    IN IF w.panic # NoPanic
       THEN [panic |-> w.panic, data |-> w.data, payload |-> None]
       ELSE IF len > Len(w.data)
       THEN [panic |-> "index out of bounds", data |-> w.data,
             payload |-> None]
       ELSE [panic |-> NoPanic, data |-> w.data,
             payload |-> Some(Payload(contents, SubSeq(w.data, 1, len)))]

\* acc |= (data[i] as u64) << ((i - lo) * 8), for i in i..hi
RECURSIVE shl_loop(_, _, _, _, _, _)
shl_loop(data, i, hi, lo, acc, oc) ==
    IF i >= hi THEN [panic |-> NoPanic, rval |-> acc]
    ELSE IF i >= Len(data)
    THEN [panic |-> "index out of bounds", rval |-> acc]
    ELSE LET sh == (i - lo) * 8
         IN IF sh >= 64 /\ oc
            THEN [panic |-> "shift overflow", rval |-> acc]
            ELSE shl_loop(data, i + 1, hi, lo,
                     U64Or(acc, U64Shl(U64OfByte(data[i + 1]), sh % 64)), oc)

\* rval |= (data[i] as u64).checked_shl(((i - lo) * 8) as u32).unwrap(),
\* for i in i..data.len()
RECURSIVE checked_shl_loop(_, _, _, _)
checked_shl_loop(data, i, lo, acc) ==
    IF i >= Len(data) THEN [panic |-> NoPanic, rval |-> acc]
    ELSE LET shifted == checked_shl(U64OfByte(data[i + 1]), (i - lo) * 8)
         IN IF shifted = None
            THEN [panic |-> "unwrap on None", rval |-> acc]
            ELSE checked_shl_loop(data, i + 1, lo, U64Or(acc, shifted[1]))

\* the Frequency decode without the division
value_frequency_nodiv(data, oc) == shl_loop(data, 0, 6, 0, Zero64, oc)

value_frequency(data, oc) ==
    LET m == shl_loop(data, 0, 6, 0, Zero64, oc)
    IN IF m.panic # NoPanic THEN m
       ELSE LET n == shl_loop(data, 6, 8, 6, Zero64, oc)
            IN IF n.panic # NoPanic THEN n
               ELSE IF IsZero64(n.rval)
               THEN [panic |-> NoPanic, rval |-> m.rval]
               ELSE [panic |-> NoPanic, rval |-> U64Div(m.rval, n.rval)]

\* the TimeOfDay decode reading all 11 bytes
value_time_of_day_all(data) == checked_shl_loop(data, 0, 0, Zero64)

value_time_of_day(data) == checked_shl_loop(data, 5, 5, Zero64)

\* the generic decode starting at the second byte
value_default_skip0(data) == checked_shl_loop(data, 1, 0, Zero64)

value_default(data) == checked_shl_loop(data, 0, 0, Zero64)

\* Payload::value: the panic (if any) and the u64 returned
value(p, oc) ==
    CASE p.contents = "Frequency" -> value_frequency(p.data, oc)
      [] p.contents = "TimeOfDay" -> value_time_of_day(p.data)
      [] OTHER -> value_default(p.data)

(***************************************************************************)
(* Inputs of the codec.                                                    *)
(***************************************************************************)
\* byte sequences of length len with at most nz non-zero bytes
Sparse(len, nz) ==
    UNION { { [i \in 1..len |-> IF i \in P THEN f[i] ELSE 0] :
                f \in [P -> ByteVals] } :
            P \in { Q \in SUBSET (1..len) : Cardinality(Q) <= nz } }

\* the byte sequences of tests::data and tests::tod, and m = 10, n = 2
TestBytes ==
    { << 222, 1, 206, 250, 237, 254 >>,
      << 0, 0, 0, 0, 0, 0, 119, 118, 93, 0, 0 >>,
      << 10, 0, 0, 0, 0, 0, 2, 0 >>,
      << 17, 34, 51, 68, 85, 102, 119, 136, 153, 170, 187, 204 >> }

Buffers == TestBytes \cup UNION { Sparse(len, MaxNonZero) : len \in 0..MaxLen }

\* an output buffer as the caller allocates it, every byte 0xaa
OutBuffer(len) == [i \in 1..len |-> 170]

OutBuffers == { OutBuffer(len) : len \in 0..MaxLen }

Values ==
    Sparse(8, MaxValNonZero)
    \cup { << 222, 1, 206, 250, 237, 254, 0, 0 >>,
           << 239, 205, 171, 137, 103, 69, 35, 1 >>,
           << 255, 255, 255, 255, 255, 255, 255, 255 >>,
           << 0, 0, 0, 0, 0, 0, 1, 0 >> }

Call(op, contents, v) == [op |-> op, contents |-> contents, value |-> v]

(***************************************************************************)
(* The codec's operations, as called by a driver.                          *)
(***************************************************************************)
InitCodec(bufs) ==
    /\ overflow_checks \in BOOLEAN
    /\ slice \in bufs
    /\ payload = None
    /\ rval = None
    /\ calls = << >>
    /\ panic = NoPanic
    /\ registers_ron = << >>
    /\ table = None
    /\ address_test = "not run"
    /\ register_test = "not run"

InitDecode == InitCodec(Buffers)

InitEncode == InitCodec(OutBuffers)

FromSlice ==
    /\ panic = NoPanic
    /\ \A j \in 1..Len(calls) : calls[j].op = "into_slice"
    /\ \E contents \in Contents :
          /\ payload' = from_slice(contents, slice)
          /\ calls' = Append(calls, Call("from_slice", contents, Zero64))
    /\ UNCHANGED << overflow_checks, slice, rval, panic, table_vars >>

IntoSlice ==
    /\ panic = NoPanic
    /\ calls = << >>
    /\ \E contents \in Contents, v \in Values :
          \E r \in {into_slice(contents, v, slice, overflow_checks)} :
             /\ slice' = r.data
             /\ payload' = r.payload
             /\ panic' = r.panic
             /\ calls' = Append(calls, Call("into_slice", contents, v))
    /\ UNCHANGED << overflow_checks, rval, table_vars >>

Value ==
    /\ panic = NoPanic
    /\ payload # None
    /\ calls # << >>
    /\ calls[Len(calls)].op # "value"
    /\ \E r \in {value(payload[1], overflow_checks)} :
          /\ panic' = r.panic
          /\ rval' = IF r.panic = NoPanic THEN Some(r.rval) ELSE None
    /\ calls' = Append(calls, Call("value", payload[1].contents, Zero64))
    /\ UNCHANGED << overflow_checks, slice, payload, table_vars >>

NextDecode == FromSlice \/ Value

NextEncode == IntoSlice \/ FromSlice \/ Value

SpecDecode == InitDecode /\ [][NextDecode]_vars

SpecEncode == InitEncode /\ [][NextEncode]_vars

(***************************************************************************)
(* Vocabulary of the codec properties.                                     *)
(***************************************************************************)
SimpleKinds == {"Byte", "Word", "Word24", "Word32", "Word40", "Word48"}

LastCall == calls[Len(calls)]

OpsAre(ops) ==
    /\ Len(calls) = Len(ops)
    /\ \A j \in 1..Len(ops) : calls[j].op = ops[j]

\* the u64 whose n low bytes are bytes[from + 1 .. from + n], least
\* significant first, and whose other bytes are zero
LittleEndian(bytes, from, n) ==
    [i \in 1..8 |-> IF i <= n THEN bytes[from + i] ELSE 0]

\* v modulo 2^(8 * n)
Truncated(v, n) == [i \in 1..8 |-> IF i <= n THEN v[i] ELSE 0]

\* the natural sum of bytes[i + 1] * 256^i over i < n, for n <= 3
RECURSIVE ByteSum(_, _)
ByteSum(bytes, n) ==
    IF n = 0 THEN 0 ELSE bytes[1] + (256 * ByteSum(Tail(bytes), n - 1))

\* the bytes, least significant first, of q * n + carry, as 11 bytes
RECURSIVE TimesPlus(_, _, _, _)
TimesPlus(q, n, i, carry) ==
    IF i > 8
    THEN << carry % 256, (carry \div 256) % 256, carry \div 65536 >>
    ELSE LET t == (q[i] * n) + carry
         IN << t % 256 >> \o TimesPlus(q, n, i + 1, t \div 256)

\* a <= b for two byte sequences of the same length, least significant first
RECURSIVE LessEq(_, _, _)
LessEq(a, b, i) ==
    IF i = 0 THEN TRUE
    ELSE IF a[i] # b[i] THEN a[i] < b[i]
    ELSE LessEq(a, b, i - 1)

Wide(v) == v \o << 0, 0, 0 >>

\* q is the truncating quotient of m by the natural n > 0
IsQuotient(q, m, n) ==
    /\ LessEq(TimesPlus(q, n, 1, 0), Wide(m), 11)
    /\ ~ LessEq(TimesPlus(q, n, 1, n), Wide(m), 11)

\* C1: from_slice returns None when the buffer is shorter than kind.size();
\* otherwise it returns a Payload of the given kind whose data is exactly the
\* first kind.size() bytes of the buffer, in order.
C1_FromSliceLength ==
    (calls # << >> /\ LastCall.op = "from_slice") =>
        LET kind == LastCall.contents
        IN IF Len(slice) < size(kind)
           THEN payload = None
           ELSE /\ Len(payload) = 1
                /\ payload[1].contents = kind
                /\ Len(payload[1].data) = size(kind)
                /\ \A i \in 1..size(kind) : payload[1].data[i] = slice[i]

C1_Witness ==
    /\ calls # << >>
    /\ LastCall.op = "from_slice"
    /\ Len(slice) > size(LastCall.contents)
    /\ payload # None
    /\ slice[Len(slice)] # 0
    /\ slice[1] # 0

\* C2: for a kind of one to six bytes and a buffer at least that long,
\* from_slice followed by value returns the little-endian unsigned integer of
\* the first kind.size() bytes; later bytes of the buffer have no influence.
C2_ValueLittleEndian ==
    (/\ OpsAre(<< "from_slice", "value" >>)
     /\ calls[1].contents \in SimpleKinds
     /\ Len(slice) >= size(calls[1].contents)) =>
        LET n == size(calls[1].contents)
        IN /\ panic = NoPanic
           /\ rval = Some(LittleEndian(slice, 0, n))
           /\ n <= 3 =>
                 /\ ByteSum(rval[1], 3) = ByteSum(slice, n)
                 /\ \A i \in 4..8 : rval[1][i] = 0

C2_Witness ==
    /\ OpsAre(<< "from_slice", "value" >>)
    /\ calls[1].contents = "Word24"
    /\ Len(slice) > 3
    /\ slice[2] # 0
    /\ slice[3] # slice[2]
    /\ slice[4] # 0
    /\ rval # None

\* C3: for a kind of one to six bytes, into_slice(kind, v, buf) followed by
\* from_slice(kind, buf) and value yields v modulo 2^(8 * kind.size()), and
\* so does value on the Payload into_slice returns.
C3_RoundTrip ==
    /\ (/\ OpsAre(<< "into_slice", "from_slice", "value" >>)
        /\ calls[1].contents \in SimpleKinds
        /\ calls[2].contents = calls[1].contents) =>
           /\ panic = NoPanic
           /\ rval = Some(Truncated(calls[1].value, size(calls[1].contents)))
    /\ (/\ OpsAre(<< "into_slice", "value" >>)
        /\ calls[1].contents \in SimpleKinds) =>
           /\ panic = NoPanic
           /\ rval = Some(Truncated(calls[1].value, size(calls[1].contents)))

C3_Witness ==
    /\ OpsAre(<< "into_slice", "from_slice", "value" >>)
    /\ calls[1].contents = "Word40"
    /\ calls[2].contents = "Word40"
    /\ calls[1].value[1] # calls[1].value[5]
    /\ calls[1].value[5] # 0
    /\ calls[1].value[6] # 0
    /\ rval # None

\* C4: for an 8-byte Frequency payload, value returns m when n = 0 and the
\* truncating quotient m / n otherwise, m the little-endian integer of bytes
\* 0..5 and n that of bytes 6..7; the decode never panics.
C4_FrequencyDecode ==
    (/\ OpsAre(<< "from_slice", "value" >>)
     /\ calls[1].contents = "Frequency") =>
        LET m == LittleEndian(slice, 0, 6)
            n == slice[7] + (256 * slice[8])
        IN /\ panic = NoPanic
           /\ Len(rval) = 1
           /\ IF n = 0 THEN rval[1] = m ELSE IsQuotient(rval[1], m, n)
           /\ (m = U64OfByte(10) /\ n = 2) => rval[1] = U64OfByte(5)

C4_Witness ==
    /\ OpsAre(<< "from_slice", "value" >>)
    /\ calls[1].contents = "Frequency"
    /\ slice[7] + (256 * slice[8]) > 255
    /\ slice[5] # 0
    /\ rval # None
    /\ rval[1] # Zero64
    /\ TimesPlus(rval[1], slice[7] + (256 * slice[8]), 1, 0)
           # Wide(LittleEndian(slice, 0, 6))

\* C5: for an 11-byte TimeOfDay payload made by from_slice, value returns
\* the little-endian integer of bytes 5..10, whatever bytes 0..4 are, and
\* never panics.
C5_TimeOfDayDecode ==
    (/\ OpsAre(<< "from_slice", "value" >>)
     /\ calls[1].contents = "TimeOfDay") =>
        /\ panic = NoPanic
        /\ rval = Some(LittleEndian(slice, 5, 6))

C5_Witness ==
    /\ OpsAre(<< "from_slice", "value" >>)
    /\ calls[1].contents = "TimeOfDay"
    /\ slice[3] # 0
    /\ slice[11] # 0
    /\ rval # None
    /\ rval[1][6] = slice[11]

\* C6: for every kind but Frequency and every buffer of at least kind.size()
\* bytes, into_slice returns a Payload and byte i of the buffer is
\* floor(value / 256^i) mod 256 for every i < kind.size(), which is zero for
\* i >= 8.
C6_IntoSliceLittleEndian ==
    (/\ calls # << >>
     /\ calls[1].op = "into_slice"
     /\ calls[1].contents # "Frequency"
     /\ Len(slice) >= size(calls[1].contents)) =>
        /\ panic = NoPanic
        /\ Len(calls) = 1 => payload # None
        /\ \A i \in 1..size(calls[1].contents) :
              slice[i] = IF i <= 8 THEN calls[1].value[i] ELSE 0

\* C7: into_slice(Frequency, v, buf) with at least 8 bytes of buffer writes
\* the low 48 bits of v into bytes 0..5 and the denominator 1 into bytes 6..7,
\* so that value on the returned Payload is v modulo 2^48.
C7_FrequencyEncode ==
    (/\ calls # << >>
     /\ calls[1].op = "into_slice"
     /\ calls[1].contents = "Frequency"
     /\ Len(slice) >= 8) =>
        /\ panic = NoPanic
        /\ \A i \in 1..6 : slice[i] = calls[1].value[i]
        /\ slice[7] = 1
        /\ slice[8] = 0
        /\ \A i \in 9..Len(slice) : slice[i] = OutBuffer(Len(slice))[i]
        /\ Len(calls) = 1 =>
              payload = Some(Payload("Frequency", SubSeq(slice, 1, 8)))
        /\ OpsAre(<< "into_slice", "value" >>) =>
              rval = Some(Truncated(calls[1].value, 6))

C7_Witness ==
    /\ OpsAre(<< "into_slice", "value" >>)
    /\ calls[1].contents = "Frequency"
    /\ calls[1].value[7] # 0
    /\ calls[1].value[6] # 0
    /\ Len(slice) > 8
    /\ rval # None

(***************************************************************************)
(* build.rs: the register description and the generated table.             *)
(*                                                                         *)
(* A description maps module names to [base, registers]; a register of the *)
(* description is the tuple << offset, name, contents >> (fields .0 .1 .2  *)
(* of the tuple struct).  A HashMap is a function, iterated in an order    *)
(* the program does not choose; a BTreeMap is a function iterated in       *)
(* ascending key order.                                                    *)
(***************************************************************************)
MaxModules == 2        \* modules in a register description

AllModuleNames == << "SYNC", "DPLL", "TOD", "GPIO" >>

ModuleNames == { AllModuleNames[i] : i \in 1..MaxModules }

BaseLists ==
    { << >>, << 0 >>, << 2 >>, << 0, 2 >>, << 4, 0 >>, << 65534 >> }

RegisterLists ==
    { << >>,
      << << 0, "r", "Word" >> >>,
      << << 0, "r", "Word" >>, << 2, "s", "Byte" >> >>,
      << << 0, "r", "Word" >>, << 1, "s", "Byte" >> >>,
      << << 2, "s", "Byte" >>, << 0, "r", "Word" >> >>,
      << << 0, "r", "Word" >>, << 2, "r", "Byte" >> >> }

ModuleChoices == [base : BaseLists, registers : RegisterLists]

Descriptions ==
    UNION { [names -> ModuleChoices] : names \in SUBSET ModuleNames }

\* the orders in which a HashMap with key set S can be iterated
IterationOrders(S) ==
    { o \in [1..Cardinality(S) -> S] :
        \A i, j \in 1..Cardinality(S) : o[i] = o[j] => i = j }

\* BTreeMap::insert
btree_insert(map, key, val) ==
    [k \in DOMAIN map \cup {key} |-> IF k = key THEN val ELSE map[k]]

\* the values of a BTreeMap in ascending key order
RECURSIVE btree_values(_)
btree_values(map) ==
    IF DOMAIN map = {} THEN << >>
    ELSE LET k == CHOOSE x \in DOMAIN map : \A y \in DOMAIN map : x <= y
         IN << map[k] >>
            \o btree_values([j \in DOMAIN map \ {k} |-> map[j]])

\* format!("{:x}"): the hexadecimal digits, most significant first
RECURSIVE hex(_)
hex(n) == IF n < 16 THEN << n >> ELSE hex(n \div 16) \o << n % 16 >>

\* the u16 a hexadecimal literal of the generated source denotes
RECURSIVE parse_hex(_)
parse_hex(digits) ==
    IF Len(digits) = 0 THEN 0
    ELSE (16 * parse_hex(SubSeq(digits, 1, Len(digits) - 1)))
         + digits[Len(digits)]

\* for (name, module) in modules { sorted.insert(module.base[0], name) }
RECURSIVE sort_modules(_, _, _, _)
sort_modules(description, order, i, sorted) ==
    IF i > Len(order) THEN [panic |-> NoPanic, sorted |-> sorted]
    ELSE IF Len(description[order[i]].base) = 0
    THEN [panic |-> "index out of bounds", sorted |-> sorted]
    ELSE sort_modules(description, order, i + 1,
             btree_insert(sorted, description[order[i]].base[1], order[i]))

\* the text written for one module: its name, its base addresses and its
\* registers, the numbers as hexadecimal literals
emit_module(name, module) ==
    [name |-> name,
     base |-> [b \in 1..Len(module.base) |-> hex(module.base[b])],
     registers |-> [r \in 1..Len(module.registers) |->
                      [name |-> module.registers[r][2],
                       offset |-> hex(module.registers[r][1]),
                       contents |-> module.registers[r][3]]]]

\* output_modules, the HashMap being iterated in the given order: the panic
\* (if any) and the sequence of modules written
output_modules(description, order) ==
    LET s == sort_modules(description, order, 1, << >>)
        names == btree_values(s.sorted)
    IN IF s.panic # NoPanic
       THEN [panic |-> s.panic, text |-> << >>]
       ELSE [panic |-> NoPanic,
             text |-> [i \in 1..Len(names) |->
                         emit_module(names[i], description[names[i]])]]

\* modules(): the generated source as compiled into the crate
modules(text) ==
    [i \in 1..Len(text) |->
       [name |-> text[i].name,
        base |-> [b \in 1..Len(text[i].base) |-> parse_hex(text[i].base[b])],
        registers |-> [r \in 1..Len(text[i].registers) |->
                         [name |-> text[i].registers[r].name,
                          offset |-> parse_hex(text[i].registers[r].offset),
                          contents |-> text[i].registers[r].contents]]]]

(***************************************************************************)
(* The table validators of the crate's tests.                              *)
(***************************************************************************)
U16 == 65536

\* a + b on u16 without overflow checks
wrapping_add_u16(a, b) == (a + b) % U16

overflows_u16(a, b) == a + b >= U16

\* for register in module.registers { ... } of address_orthogonality:
\* addr, then limit, then the assertion, then seen
RECURSIVE scan_registers(_, _, _, _, _)
scan_registers(registers, r, base, seen, oc) ==
    IF r > Len(registers) THEN [outcome |-> "ok", seen |-> seen]
    ELSE LET addr == wrapping_add_u16(base, registers[r].offset)
             sz == size(registers[r].contents)
         IN IF oc /\ overflows_u16(base, registers[r].offset)
            THEN [outcome |-> "add overflow", seen |-> seen]
            ELSE IF oc /\ overflows_u16(addr, sz)
            THEN [outcome |-> "add overflow", seen |-> seen]
            ELSE IF addr < seen
            THEN [outcome |-> "assertion failed", seen |-> seen]
            ELSE scan_registers(registers, r + 1, base,
                     wrapping_add_u16(addr, sz), oc)

\* for i in 0..module.base.len() { ... }
RECURSIVE scan_bases(_, _, _, _)
scan_bases(module, i, seen, oc) ==
    IF i >= Len(module.base) THEN [outcome |-> "ok", seen |-> seen]
    ELSE LET res == scan_registers(module.registers, 1, module.base[i + 1],
                                   seen, oc)
         IN IF res.outcome # "ok" THEN res
            ELSE scan_bases(module, i + 1, res.seen, oc)

\* for module in modules { ... }
RECURSIVE scan_modules(_, _, _, _)
scan_modules(mods, m, seen, oc) ==
    IF m > Len(mods) THEN [outcome |-> "ok", seen |-> seen]
    ELSE LET res == scan_bases(mods[m], 0, seen, oc)
         IN IF res.outcome # "ok" THEN res
            ELSE scan_modules(mods, m + 1, res.seen, oc)

\* tests::address_orthogonality: "ok" when the test passes
address_orthogonality(mods, oc) == scan_modules(mods, 1, 0, oc).outcome

\* for register in module.registers { regnames.insert(register.name) }
RECURSIVE insert_names(_, _, _)
insert_names(registers, r, regnames) ==
    IF r > Len(registers) THEN [outcome |-> "ok", regnames |-> regnames]
    ELSE IF registers[r].name \in regnames
    THEN [outcome |-> "duplicate register", regnames |-> regnames]
    ELSE insert_names(registers, r + 1, regnames \cup {registers[r].name})

\* for module in modules { ... } of register_orthogonality
RECURSIVE names_modules(_, _, _)
names_modules(mods, m, regnames) ==
    IF m > Len(mods) THEN [outcome |-> "ok", regnames |-> regnames]
    ELSE LET res == insert_names(mods[m].registers, 1, regnames)
         IN IF res.outcome # "ok" THEN res
            ELSE names_modules(mods, m + 1, res.regnames)

\* the name check with a fresh set for every module
register_orthogonality_per_module(mods) ==
    IF \E m \in 1..Len(mods) :
          insert_names(mods[m].registers, 1, {}).outcome # "ok"
    THEN "duplicate register"
    ELSE "ok"

\* tests::register_orthogonality: "ok" when the test passes
register_orthogonality(mods) == names_modules(mods, 1, {}).outcome

(***************************************************************************)
(* The build and the two tests.                                            *)
(***************************************************************************)
InitTable ==
    /\ overflow_checks \in BOOLEAN
    /\ registers_ron \in Descriptions
    /\ table = None
    /\ address_test = "not run"
    /\ register_test = "not run"
    /\ panic = NoPanic
    /\ slice = << >>
    /\ payload = None
    /\ rval = None
    /\ calls = << >>

\* build.rs writes modules.rs, which the crate includes
OutputModules ==
    /\ panic = NoPanic
    /\ table = None
    /\ \E order \in IterationOrders(DOMAIN registers_ron) :
          \E out \in {output_modules(registers_ron, order)} :
             /\ panic' = out.panic
             /\ table' = IF out.panic = NoPanic
                         THEN Some(modules(out.text))
                         ELSE None
    /\ UNCHANGED << overflow_checks, registers_ron, address_test,
                    register_test, codec_vars >>

AddressOrthogonality ==
    /\ table # None
    /\ address_test = "not run"
    /\ address_test' = address_orthogonality(table[1], overflow_checks)
    /\ UNCHANGED << overflow_checks, registers_ron, table, register_test,
                    panic, codec_vars >>

RegisterOrthogonality ==
    /\ table # None
    /\ register_test = "not run"
    /\ register_test' = register_orthogonality(table[1])
    /\ UNCHANGED << overflow_checks, registers_ron, table, address_test,
                    panic, codec_vars >>

NextTable == OutputModules \/ AddressOrthogonality \/ RegisterOrthogonality

SpecTable == InitTable /\ [][NextTable]_vars

(***************************************************************************)
(* Vocabulary of the table properties.                                     *)
(***************************************************************************)
\* the register instances of a table: (module, base index, register)
Instances(mods) ==
    UNION { { << m, b, r >> : b \in 1..Len(mods[m].base),
                              r \in 1..Len(mods[m].registers) } :
            m \in 1..Len(mods) }

\* first byte and byte after the last of an instance, as naturals
Start(mods, t) == mods[t[1]].base[t[2]] + mods[t[1]].registers[t[3]].offset

End(mods, t) == Start(mods, t) + size(mods[t[1]].registers[t[3]].contents)

Overlapping(mods) ==
    \E t, u \in Instances(mods) :
        /\ t # u
        /\ Start(mods, t) < End(mods, u)
        /\ Start(mods, u) < End(mods, t)

\* two registers of the table, at different places, with the same name
DuplicateName(mods) ==
    \E m1, m2 \in 1..Len(mods) :
        \E r1 \in 1..Len(mods[m1].registers),
           r2 \in 1..Len(mods[m2].registers) :
            /\ << m1, r1 >> # << m2, r2 >>
            /\ mods[m1].registers[r1].name = mods[m2].registers[r2].name

Lowest(base) == CHOOSE x \in { base[i] : i \in 1..Len(base) } :
                    \A i \in 1..Len(base) : x <= base[i]

\* C8: if the address_orthogonality scan passes, no two distinct register
\* instances of the table have overlapping byte ranges.
C8_ScanSound ==
    (table # None /\ address_test = "ok") => ~ Overlapping(table[1])

\* C9: register_orthogonality fails exactly when two registers of the table,
\* in the same module or in different ones, have the same name; a module
\* with several base addresses is visited once.
C9_NameUniqueness ==
    (table # None /\ register_test # "not run") =>
        (register_test = "duplicate register" <=> DuplicateName(table[1]))

C9_Witness ==
    /\ table # None
    /\ register_test = "duplicate register"
    /\ Len(table[1]) = 2
    /\ Len(table[1][1].base) = 2
    /\ \A m \in 1..2 : ~ DuplicateName(<< table[1][m] >>)

\* C10: the table is a sorted permutation of the description's modules:
\* each module appears exactly once, in ascending order of lowest base
\* address, with its base addresses and registers in declared order.
C10_SortedPermutation ==
    table # None =>
        LET mods == table[1]
        IN /\ Len(mods) = Cardinality(DOMAIN registers_ron)
           /\ \A name \in DOMAIN registers_ron :
                 \E i \in 1..Len(mods) :
                    /\ mods[i].name = name
                    /\ \A j \in 1..Len(mods) : mods[j].name = name => j = i
                    /\ mods[i].base = registers_ron[name].base
                    /\ Len(mods[i].registers)
                          = Len(registers_ron[name].registers)
                    /\ \A r \in 1..Len(mods[i].registers) :
                          /\ mods[i].registers[r].offset
                                = registers_ron[name].registers[r][1]
                          /\ mods[i].registers[r].name
                                = registers_ron[name].registers[r][2]
                          /\ mods[i].registers[r].contents
                                = registers_ron[name].registers[r][3]
           /\ \A i, j \in 1..Len(mods) :
                 i < j => Lowest(mods[i].base) <= Lowest(mods[j].base)
====
